---- MODULE Spec2Model ----
(***************************************************************************)
(* A model of src/stability/stability_evaluation.py: spike-train label     *)
(* normalisation (clean_spike_train), the batch reader, template           *)
(* estimation (MeanWaveCalculator), recording augmentation                 *)
(* (RecordingAugmentation) and spike-sorting scoring                       *)
(* (SpikeSortingEvaluation).                                               *)
(*                                                                         *)
(* A spike train (an [N, 2] integer array) is a sequence of rows           *)
(* <<time, label>>.  Python indices are 0-based; sequences here are        *)
(* 1-based, so a[i] in the source is a[i + 1] here.                        *)
(***************************************************************************)
EXTENDS Integers, Sequences, FiniteSets, TLC

VARIABLES clean, match, sse, train, reader, calc, aug, saved, pass, calls

pipe == <<train, reader, calc, aug, saved, pass, calls>>

vars == <<clean, match, sse, train, reader, calc, aug, saved, pass, calls>>

(***************************************************************************)
(* Bounds of the model.                                                    *)
(***************************************************************************)
\* longest spike train handed to clean_spike_train
MaxCleanRows == 3
\* raw unit labels handed to clean_spike_train are -MaxRawLabel..MaxRawLabel
MaxRawLabel == 3
\* longest time sequence handed to count_matches
MaxLen == 3
\* spike times of the matcher lie on the ticks 0..MaxTick of the time grid
MaxTick == 2
\* longest spike train handed to SpikeSortingEvaluation
MaxEvalRows == 3
\* raw unit labels handed to SpikeSortingEvaluation are 0..MaxEvalLabel
MaxEvalLabel == 2
\* batch_time_samples of the RecordingBatchIterator (a constructor argument)
batch_time_samples == 50
\* number of whole blocks in the recording file
NBlocks == 6
\* longest spike train handed to MeanWaveCalculator
MaxSpikes == 5
\* raw unit labels handed to MeanWaveCalculator are 0..MaxPipeLabel
MaxPipeLabel == 1
\* largest n_batches of a direct compute_templates call
MaxBatches == 2
\* largest length argument of save_augment_recording
MaxLength == 2
\* number of calls made on the shared objects in one behaviour
MaxCalls == 3

(***************************************************************************)
(* General helpers.                                                        *)
(***************************************************************************)
SeqsUpTo(S, n) == UNION {[1..k -> S] : k \in 0..n}

Abs(x) == IF x < 0 THEN -x ELSE x

SetMin(S) == CHOOSE x \in S : \A y \in S : x <= y

SetMax(S) == CHOOSE x \in S : \A y \in S : y <= x

Range(s) == {s[k] : k \in DOMAIN s}

IsSorted(s) == \A k \in 1..(Len(s) - 1) : s[k] <= s[k + 1]

Times(spt) == [k \in DOMAIN spt |-> spt[k][1]]

Labels(spt) == [k \in DOMAIN spt |-> spt[k][2]]

(***************************************************************************)
(* numpy helpers.                                                          *)
(***************************************************************************)
\* np.unique: the sorted distinct values
RECURSIVE np_unique_set(_)
np_unique_set(S) ==
    IF S = {} THEN <<>>
    ELSE LET m == SetMin(S) IN <<m>> \o np_unique_set(S \ {m})

np_unique(col) == np_unique_set(Range(col))

(***************************************************************************)
(* clean_spike_train (lines 10-17).                                        *)
(***************************************************************************)
\* one iteration of "for i, u in enumerate(units)": rows whose label
\* currently equals u get label i (i is 0-based)
clean_relabel(spt, i, u) ==
    [k \in DOMAIN spt |-> IF spt[k][2] = u THEN <<spt[k][1], i>> ELSE spt[k]]

RECURSIVE clean_loop(_, _, _)
clean_loop(spt, units, i) ==
    IF i >= Len(units) THEN spt
    ELSE clean_loop(clean_relabel(spt, i, units[i + 1]), units, i + 1)

clean_spike_train(spt) ==
    LET units  == np_unique(Labels(spt))
        n      == Len(units)
        spt1   == [k \in DOMAIN spt |-> <<spt[k][1], spt[k][2] + n>>]
        units1 == [k \in DOMAIN units |-> units[k] + n]
    IN  clean_loop(spt1, units1, 0)

(***************************************************************************)
(* Specification SpecClean: clean_spike_train applied to a bounded input.  *)
(***************************************************************************)
CleanTimes == {0, 30}

CleanInputs == SeqsUpTo(CleanTimes \X (-MaxRawLabel..MaxRawLabel), MaxCleanRows)

CleanIdle == [pc |-> "idle", orig |-> <<>>, spt |-> <<>>]

MatchIdle == [pc |-> "idle", array1 |-> <<>>, array2 |-> <<>>, tol |-> 0,
              i |-> 0, j |-> 0, count |-> 0]

SseIdle == [pc |-> "idle", in_base |-> <<>>, in_spt |-> <<>>,
            spt_base |-> <<>>, spt |-> <<>>, n_units |-> 0, n_clusters |-> 0,
            spike_count_base |-> <<>>, spike_count_cluster |-> <<>>,
            confusion_matrix |-> <<>>, true_positive |-> <<>>,
            false_positive |-> <<>>, unit_cluster_map |-> <<>>]

CalcIdle == [alive |-> FALSE, fresh |-> FALSE, spike_train |-> <<>>, n_units |-> 0,
             templates |-> <<>>, counts |-> <<>>, boundary_violation |-> 0]

AugIdle == [alive |-> FALSE, stat_summary |-> <<>>]

SavedIdle == [done |-> FALSE, length |-> 0, n_units |-> 0, base |-> <<>>,
              moved_units |-> <<>>, moved |-> <<>>, aug_spt |-> <<>>,
              out_file |-> <<>>, boundary_violation |-> 0, result |-> <<>>]

PassIdle == [op |-> "none", ok |-> TRUE, pairs |-> <<>>]

PipeIdle ==
    /\ train = <<>>
    /\ reader = [cursor |-> 0]
    /\ calc = CalcIdle
    /\ aug = AugIdle
    /\ saved = SavedIdle
    /\ pass = PassIdle
    /\ calls = 0

CleanInit ==
    /\ \E s \in CleanInputs : clean = [pc |-> "call", orig |-> s, spt |-> s]
    /\ match = MatchIdle
    /\ sse = SseIdle
    /\ PipeIdle

CleanCall ==
    /\ clean.pc = "call"
    /\ clean' = [clean EXCEPT !.pc = "done", !.spt = clean_spike_train(clean.spt)]
    /\ UNCHANGED <<match, sse, pipe>>

CleanNext == CleanCall

SpecClean == CleanInit /\ [][CleanNext]_vars

(***************************************************************************)
(* SpikeSortingEvaluation.count_matches (lines 367-387).                   *)
(***************************************************************************)
\* line 374
admissible_proximity == 60

\* the loop condition of line 378
count_matches_guard(array1, array2, st) ==
    st.i < Len(array1) /\ st.j < Len(array2)

\* a variant of the loop body whose comparison is reversed: it matches two
\* spikes that are farther apart than the tolerance
count_matches_step_far(array1, array2, tol, st) ==
    IF Abs(array1[st.i + 1] - array2[st.j + 1]) > tol
    THEN [i |-> st.i + 1, j |-> st.j + 1, count |-> st.count + 1]
    ELSE IF array1[st.i + 1] < array2[st.j + 1]
         THEN [st EXCEPT !.i = st.i + 1]
         ELSE [st EXCEPT !.j = st.j + 1]

\* a variant of the loop body that forgets "j += 1" on a match
count_matches_step_noj(array1, array2, tol, st) ==
    IF Abs(array1[st.i + 1] - array2[st.j + 1]) < tol
    THEN [i |-> st.i + 1, j |-> st.j, count |-> st.count + 1]
    ELSE IF array1[st.i + 1] < array2[st.j + 1]
         THEN [st EXCEPT !.i = st.i + 1]
         ELSE [st EXCEPT !.j = st.j + 1]

\* the loop body, lines 379-386
count_matches_step(array1, array2, tol, st) ==
    IF Abs(array1[st.i + 1] - array2[st.j + 1]) < tol
    THEN [i |-> st.i + 1, j |-> st.j + 1, count |-> st.count + 1]
    ELSE IF array1[st.i + 1] < array2[st.j + 1]
         THEN [st EXCEPT !.i = st.i + 1]
         ELSE [st EXCEPT !.j = st.j + 1]

RECURSIVE count_matches_loop(_, _, _, _)
count_matches_loop(array1, array2, tol, st) ==
    IF count_matches_guard(array1, array2, st)
    THEN count_matches_loop(array1, array2, tol,
                            count_matches_step(array1, array2, tol, st))
    ELSE st

\* count_matches with the proximity tolerance as a parameter (the source
\* fixes it to admissible_proximity)
count_matches_tol(array1, array2, tol) ==
    count_matches_loop(array1, array2, tol, [i |-> 0, j |-> 0, count |-> 0]).count

count_matches(array1, array2) ==
    count_matches_tol(array1, array2, admissible_proximity)

(***************************************************************************)
(* Specification SpecMatch: the merge loop of count_matches, one action    *)
(* per iteration, on bounded time sequences and tolerances.                *)
(***************************************************************************)
\* the time grid: multiples of half the tolerance of the source
Tick == admissible_proximity \div 2

MatchTimes == {k * Tick : k \in 0..MaxTick}

Tolerances == {Tick, admissible_proximity, 2 * admissible_proximity}

MatchInit ==
    /\ \E a1 \in SeqsUpTo(MatchTimes, MaxLen), a2 \in SeqsUpTo(MatchTimes, MaxLen),
          t \in Tolerances :
          match = [pc |-> "loop", array1 |-> a1, array2 |-> a2, tol |-> t,
                   i |-> 0, j |-> 0, count |-> 0]
    /\ clean = CleanIdle
    /\ sse = SseIdle
    /\ PipeIdle

MatchCursor == [i |-> match.i, j |-> match.j, count |-> match.count]

MatchIter ==
    /\ match.pc = "loop"
    /\ count_matches_guard(match.array1, match.array2, MatchCursor)
    /\ LET st == count_matches_step(match.array1, match.array2, match.tol, MatchCursor)
       IN  match' = [match EXCEPT !.i = st.i, !.j = st.j, !.count = st.count]
    /\ UNCHANGED <<clean, sse, pipe>>

MatchReturn ==
    /\ match.pc = "loop"
    /\ ~count_matches_guard(match.array1, match.array2, MatchCursor)
    /\ match' = [match EXCEPT !.pc = "done"]
    /\ UNCHANGED <<clean, sse, pipe>>

MatchNext == MatchIter \/ MatchReturn

SpecMatch == MatchInit /\ [][MatchNext]_vars

(***************************************************************************)
(* SpikeSortingEvaluation (lines 307-396).  A rate (an entry of            *)
(* true_positive or false_positive, a float quotient in the source) is     *)
(* kept as the pair <<numerator, denominator>>.                            *)
(***************************************************************************)
RateIs(r, n) == r[2] # 0 /\ r[1] = n * r[2]

RateEq(r, num, den) == r[2] # 0 /\ den # 0 /\ r[1] * den = num * r[2]

\* spt[spt[:, 1] == u, 0]: the times of the rows labelled u, in row order
TimesOf(spt, u) ==
    LET keep(row) == row[2] = u
    IN  Times(SelectSeq(spt, keep))

\* count_spikes, lines 336-347
count_spikes(spt) ==
    LET n_cluster == SetMax(Range(Labels(spt))) + 1
    IN  [k \in 1..n_cluster |-> Len(TimesOf(spt, k - 1))]

\* the two nested loops of compute_confusion_matrix, lines 355-365
confusion_of(spt_base, spt, n_units, n_clusters) ==
    [u \in 1..n_units |->
        [c \in 1..n_clusters |->
            count_matches(TimesOf(spt_base, u - 1), TimesOf(spt, c - 1))]]

\* np.max(confusion_matrix, axis=0)[c]
ColumnMax(cm, c) == SetMax({cm[u][c] : u \in DOMAIN cm})

\* np.argmax(confusion_matrix, axis=0)[c]: the first row holding the maximum
\* (0-based)
ColumnArgmax(cm, c) ==
    SetMin({u \in DOMAIN cm : cm[u][c] = ColumnMax(cm, c)}) - 1

\* whether numpy broadcasts two 1-d arrays of lengths a and b
Broadcastable(a, b) == a = b \/ a = 1 \/ b = 1

\* element k (1-based) of a 1-d array broadcast to a longer length
Bcast(arr, k) == IF Len(arr) = 1 THEN arr[1] ELSE arr[k]

\* line 395: match_count = self.spike_count_cluster[self.unit_cluster_map]
match_count_of(spike_count_cluster, unit_cluster_map) ==
    [c \in DOMAIN unit_cluster_map |-> spike_count_cluster[unit_cluster_map[c] + 1]]

(***************************************************************************)
(* Specification SpecEval: the constructor of SpikeSortingEvaluation in    *)
(* its three steps, on bounded reference and candidate spike trains.       *)
(***************************************************************************)
EvalTimes == {0, admissible_proximity}

EvalInputs == SeqsUpTo(EvalTimes \X (0..MaxEvalLabel), MaxEvalRows)

EvalInit ==
    /\ \E b \in EvalInputs, s \in EvalInputs :
          sse = [SseIdle EXCEPT !.pc = "init", !.in_base = b, !.in_spt = s]
    /\ clean = CleanIdle
    /\ match = MatchIdle
    /\ PipeIdle

\* lines 319-329; np.max of an empty column raises ValueError
SseConstruct ==
    /\ sse.pc = "init"
    /\ LET spt_base == clean_spike_train(sse.in_base)
           spt      == clean_spike_train(sse.in_spt)
       IN  IF spt_base = <<>> \/ spt = <<>>
           THEN sse' = [sse EXCEPT !.pc = "error"]
           ELSE sse' = [sse EXCEPT
                    !.pc = "counted",
                    !.spt_base = spt_base,
                    !.spt = spt,
                    !.n_units = SetMax(Range(Labels(spt_base))) + 1,
                    !.n_clusters = SetMax(Range(Labels(spt))) + 1,
                    !.spike_count_base = count_spikes(spt_base),
                    !.spike_count_cluster = count_spikes(spt)]
    /\ UNCHANGED <<clean, match, pipe>>

\* line 330 (compute_confusion_matrix, lines 349-365) and lines 331-333
SseComputeConfusionMatrix ==
    /\ sse.pc = "counted"
    /\ sse' = [sse EXCEPT
           !.pc = "confused",
           !.confusion_matrix =
               confusion_of(sse.spt_base, sse.spt, sse.n_units, sse.n_clusters),
           !.true_positive = [u \in 1..sse.n_units |-> <<0, 1>>],
           !.false_positive = [u \in 1..sse.n_units |-> <<0, 1>>],
           !.unit_cluster_map = [u \in 1..sse.n_units |-> 0]]
    /\ UNCHANGED <<clean, match, pipe>>

\* line 334 (compute_accuracies, lines 389-396).  Line 394 raises
\* ValueError when the two lengths do not broadcast, line 395 raises
\* IndexError when a unit index is no index of spike_count_cluster.
SseComputeAccuracies ==
    /\ sse.pc = "confused"
    /\ LET cm        == sse.confusion_matrix
           ucm       == [c \in 1..sse.n_clusters |-> ColumnArgmax(cm, c)]
           recovered == [c \in 1..sse.n_clusters |-> ColumnMax(cm, c)]
           n_tp      == IF sse.n_clusters > sse.n_units
                        THEN sse.n_clusters ELSE sse.n_units
           tp        == [k \in 1..n_tp |->
                            <<Bcast(recovered, k), Bcast(sse.spike_count_base, k)>>]
           mc        == match_count_of(sse.spike_count_cluster, ucm)
       IN  IF ~Broadcastable(sse.n_clusters, sse.n_units)
           THEN sse' = [sse EXCEPT !.pc = "error", !.unit_cluster_map = ucm]
           ELSE IF \E c \in 1..sse.n_clusters : ucm[c] >= sse.n_clusters
           THEN sse' = [sse EXCEPT !.pc = "error", !.unit_cluster_map = ucm,
                                   !.true_positive = tp]
           ELSE sse' = [sse EXCEPT
                    !.pc = "done",
                    !.unit_cluster_map = ucm,
                    !.true_positive = tp,
                    !.false_positive =
                        [c \in 1..sse.n_clusters |-> <<mc[c] - recovered[c], mc[c]>>]]
    /\ UNCHANGED <<clean, match, pipe>>

EvalNext == SseConstruct \/ SseComputeConfusionMatrix \/ SseComputeAccuracies

SpecEval == EvalInit /\ [][EvalNext]_vars

(***************************************************************************)
(* RecordingBatchIterator (lines 20-67).  The recording file holds NBlocks *)
(* whole blocks; the cursor is the file position, in blocks.  A block      *)
(* returned by next_batch is named by its index in the file: filtering and *)
(* whitening are functions of the block alone.                             *)
(***************************************************************************)
\* next_batch, lines 50-60: np.fromfile past the end of the file returns a
\* short array, and np.reshape (line 56) raises ValueError
next_batch_raises(cursor) == cursor >= NBlocks

\* the file position after next_batch
next_batch_cursor(cursor) == IF cursor >= NBlocks THEN cursor ELSE cursor + 1

(***************************************************************************)
(* numpy indexing with an integer array (lines 106, 288, 290).             *)
(***************************************************************************)
\* line 82: self.window = range(-10, 30)
WindowStart == -10

WindowStop == 30

window == [k \in 1..(WindowStop - WindowStart) |-> WindowStart + k - 1]

\* an index into an axis of length n is valid from -n to n - 1
np_index_ok(idx, n) == -n <= idx /\ idx < n

\* a negative index counts from the end of the axis
np_index(idx, n) == IF idx < 0 THEN idx + n ELSE idx

\* ts[t + window, :] raises IndexError unless every index is valid
window_ok(t, n) == \A k \in DOMAIN window : np_index_ok(t + window[k], n)

\* the rows ts[t + window, :] reads
window_rows(t, n) == [k \in DOMAIN window |-> np_index(t + window[k], n)]

(***************************************************************************)
(* MeanWaveCalculator (lines 69-116).  The template of a unit is kept as   *)
(* the sequence of operations applied to its zero array: an "add" of the   *)
(* window around local time t of a block, or a "div" by a count.           *)
(***************************************************************************)
\* line 89: status = self.compute_templates(5)
ConstructorBatches == 5

AddOp(block, t) == [op |-> "add", block |-> block, t |-> t, by |-> 0]

DivOp(c) == [op |-> "div", block |-> 0, t |-> 0, by |-> c]

\* lines 98-102 and 278-282: the rows with time strictly inside batch i,
\* shifted to batch-local time
batch_select(spt, i, n_samples) ==
    LET inside(row) == row[1] > i * n_samples /\ row[1] < (i + 1) * n_samples
        sel == SelectSeq(spt, inside)
    IN  [k \in DOMAIN sel |-> <<sel[k][1] - n_samples * i, sel[k][2]>>]

\* lines 105-109, for one selected spike <<t, unit>> of the block read
compute_templates_spike(st, block, row) ==
    IF window_ok(row[1], batch_time_samples)
    THEN [st EXCEPT !.templates[row[2] + 1] = Append(@, AddOp(block, row[1])),
                    !.counts[row[2] + 1] = @ + 1]
    ELSE [st EXCEPT !.boundary_violation = @ + 1]

RECURSIVE compute_templates_spikes(_, _, _, _)
compute_templates_spikes(st, block, spt, j) ==
    IF j > Len(spt) THEN st
    ELSE compute_templates_spikes(compute_templates_spike(st, block, spt[j]),
                                  block, spt, j + 1)

\* lines 97-109: the loop over batches; next_batch (line 103) is outside the
\* try, so its exception ends the call
RECURSIVE compute_templates_batches(_, _, _, _)
compute_templates_batches(st, spike_train, i, n_batches) ==
    IF i >= n_batches \/ st.err THEN st
    ELSE IF next_batch_raises(st.cursor)
    THEN [st EXCEPT !.err = TRUE, !.cursor = next_batch_cursor(st.cursor)]
    ELSE LET spt == batch_select(spike_train, i, batch_time_samples)
             st1 == [st EXCEPT !.cursor = next_batch_cursor(st.cursor),
                               !.pairs = Append(@, <<i, st.cursor>>)]
         IN  compute_templates_batches(
                 compute_templates_spikes(st1, st.cursor, spt, 1),
                 spike_train, i + 1, n_batches)

\* lines 110-112
compute_templates_divide(templates, counts) ==
    [u \in DOMAIN templates |->
        IF counts[u] # 0 THEN Append(templates[u], DivOp(counts[u]))
        ELSE templates[u]]

\* compute_templates, lines 92-113
compute_templates(templates, spike_train, n_units, cursor, n_batches) ==
    LET st0 == [templates |-> templates,
                counts |-> [u \in 1..n_units |-> 0],
                boundary_violation |-> 0,
                cursor |-> cursor, pairs |-> <<>>, err |-> FALSE]
        st  == compute_templates_batches(st0, spike_train, 0, n_batches)
    IN  IF st.err THEN st
        ELSE [st EXCEPT !.templates = compute_templates_divide(st.templates, st.counts)]

(***************************************************************************)
(* RecordingAugmentation (lines 119-304).                                  *)
(***************************************************************************)
\* the attributes __init__ sets on the instance (lines 127-133, with
\* construct_channel_map line 137 and compute_stat_summary line 183)
RecordingAugmentationAttrs ==
    {"template_comp", "geometry", "n_chan", "template_calculator", "x_unit",
     "geom_map", "stat_summary"}

\* line 209
refractory_period == 60

\* np.sort of a 1-d array
RECURSIVE np_sort(_)
np_sort(s) ==
    IF s = <<>> THEN <<>>
    ELSE LET m == SetMin(Range(s))
             p == CHOOSE k \in DOMAIN s : s[k] = m
         IN  <<m>> \o np_sort([k \in 1..(Len(s) - 1) |-> IF k < p THEN s[k] ELSE s[k + 1]])

\* lines 192-195: consecutive differences, zeros replaced by 1
firing_diff(spt_u) ==
    [k \in 1..(Len(spt_u) - 1) |->
        IF spt_u[k + 1] - spt_u[k] = 0 THEN 1 ELSE spt_u[k + 1] - spt_u[k]]

\* lines 196-198: np.mean / np.std of the logs of the differences, kept as
\* the statistic's name and its argument; of an empty array both are nan
LogStat(name, diffs) ==
    IF diffs = <<>> THEN [kind |-> "nan", of |-> <<>>]
    ELSE [kind |-> name, of |-> diffs]

ZeroStat == [kind |-> "zero", of |-> <<>>]

ZeroRow == [mean |-> ZeroStat, std |-> ZeroStat, count |-> 0]

\* line 189: "if len(spt > 2)": spt > 2 is the element-wise comparison of
\* the whole spike train, and its len is the number of rows of spt
stat_condition(spt, spt_u) == Len(spt) # 0

\* compute_stat_summary, lines 183-200
compute_stat_summary(spt, n_units) ==
    [u \in 1..n_units |->
        LET spt_u == np_sort(TimesOf(spt, u - 1))
        IN  IF stat_condition(spt, spt_u)
            THEN [mean  |-> LogStat("mean_log", firing_diff(spt_u)),
                  std   |-> LogStat("std_log", firing_diff(spt_u)),
                  count |-> Len(spt_u)]
            ELSE ZeroRow]

\* line 216-217 with augment_rate = 0.25 (line 202): int(count * 0.25)
new_spike_count(stat_row) == stat_row.count \div 4

\* the sampled gaps of a unit with a non-zero standard deviation: the
\* log-normal draws (lines 218-221) give any integer >= 0, so after the
\* refractory floor any integer >= refractory_period; the model draws
\* them from this set
DiffSet == {refractory_period, refractory_period + 10}

\* line 227: diffs[diffs < refractory_period] += refractory_period
refractory_floor(g) == IF g < refractory_period THEN g + refractory_period ELSE g

\* lines 218-221, 227: the gaps one unit's draws can give.  When all the
\* differences are equal the standard deviation is 0 and the draw is
\* exp(log(d)) cut to an integer: d, or d - 1 when the float round trip
\* falls short of d (exp(log(1)) is exactly 1)
sampled_gaps(diffs) ==
    IF diffs # <<>> /\ \A k \in DOMAIN diffs : diffs[k] = diffs[1]
    THEN {refractory_floor(g) :
             g \in IF diffs[1] = 1 THEN {1} ELSE {diffs[1] - 1, diffs[1]}}
    ELSE DiffSet

\* the augmented spike times one unit can get (lines 215-228): k anchors
\* drawn without replacement from the unit's sorted times, in sorted
\* order, each plus a sampled gap
unit_fake_times(spt_u, k) ==
    {[x \in 1..k |-> spt_u[pos[x]] + d[x]] :
        pos \in {q \in [1..k -> DOMAIN spt_u] : \A x \in 1..(k - 1) : q[x] < q[x + 1]},
        d \in [1..k -> sampled_gaps(firing_diff(spt_u))]}

\* make_fake_spike_train, lines 209-230: the set of spike trains it can
\* return, the units' rows concatenated from unit u on
RECURSIVE make_fake_spike_train(_, _, _, _)
make_fake_spike_train(spt, stat_summary, n_units, u) ==
    IF u >= n_units THEN {<<>>}
    ELSE LET spt_u == np_sort(TimesOf(spt, u))
             k     == new_spike_count(stat_summary[u + 1])
         IN  {[x \in 1..k |-> <<ts[x], u>>] \o rest :
                 ts \in unit_fake_times(spt_u, k),
                 rest \in make_fake_spike_train(spt, stat_summary, n_units, u + 1)}

\* lines 264-266: moved[u] = i for the i-th (0-based) selected unit
moved_of(moved_units, n_units) ==
    [u \in 1..n_units |->
        IF \E i \in DOMAIN moved_units : moved_units[i] = u - 1
        THEN (CHOOSE i \in DOMAIN moved_units : moved_units[i] = u - 1) - 1
        ELSE 0]

\* the template lines 288 / 290 add for cluster cid: the moved template
\* of index moved[cid] when moved[cid] is non-zero, else the original one
injected_template(moved_units, moved, cid) ==
    IF moved[cid + 1] # 0
    THEN [kind |-> "moved", unit |-> moved_units[moved[cid + 1] + 1]]
    ELSE [kind |-> "orig", unit |-> cid]

\* lines 285-292 for one augmented spike <<t, cid>> of the batch: the
\* index expression "spt[j, 0] + self.window" reads the instance attribute
\* window (AttributeError when the instance has none), the indexing raises
\* IndexError for an invalid row, and the bare except counts either
inject_spike(blk, attrs, moved_units, moved, row) ==
    IF "window" \notin attrs
    THEN [blk EXCEPT !.skipped = Append(@, row)]
    ELSE IF ~window_ok(row[1], batch_time_samples)
    THEN [blk EXCEPT !.skipped = Append(@, row)]
    ELSE [blk EXCEPT !.injected =
              Append(@, [t |-> row[1],
                         template |-> injected_template(moved_units, moved, row[2])])]

RECURSIVE inject_spikes(_, _, _, _, _, _)
inject_spikes(blk, attrs, moved_units, moved, spt, j) ==
    IF j > Len(spt) THEN blk
    ELSE inject_spikes(inject_spike(blk, attrs, moved_units, moved, spt[j]),
                       attrs, moved_units, moved, spt, j + 1)

\* lines 277-295: the loop over batches; a written block is the block read
\* plus the injected templates, scaled (lines 293-295)
RECURSIVE save_batches(_, _, _, _, _, _)
save_batches(st, moved_units, moved, aug_spt, i, length) ==
    IF i >= length \/ st.err THEN st
    ELSE IF next_batch_raises(st.cursor)
    THEN [st EXCEPT !.err = TRUE, !.cursor = next_batch_cursor(st.cursor)]
    ELSE LET spt == batch_select(aug_spt, i, batch_time_samples)
             blk == inject_spikes(
                        [block |-> st.cursor, injected |-> <<>>, skipped |-> <<>>,
                         scaled |-> TRUE],
                        RecordingAugmentationAttrs, moved_units, moved, spt, 1)
         IN  save_batches(
                 [st EXCEPT !.cursor = next_batch_cursor(st.cursor),
                            !.pairs = Append(@, <<i, st.cursor>>),
                            !.out_file = Append(@, blk),
                            !.boundary_violation = @ + Len(blk.skipped)],
                 moved_units, moved, aug_spt, i + 1, length)

\* lines 297-301: the augmented spikes of the units with moved[u] non-zero
\* get the ids n_units, n_units + 1, ...
RECURSIVE relabel_moved(_, _, _, _, _)
relabel_moved(aug_spt, moved, n_units, u, new_unit_id) ==
    IF u >= n_units THEN aug_spt
    ELSE IF moved[u + 1] # 0
    THEN relabel_moved(
             [k \in DOMAIN aug_spt |->
                 IF aug_spt[k][2] = u THEN <<aug_spt[k][1], new_unit_id>>
                 ELSE aug_spt[k]],
             moved, n_units, u + 1, new_unit_id + 1)
    ELSE relabel_moved(aug_spt, moved, n_units, u + 1, new_unit_id)

(***************************************************************************)
(* Specification SpecPipeline: one RecordingBatchIterator shared by a      *)
(* MeanWaveCalculator and a RecordingAugmentation, and the calls made on   *)
(* them.  train is the caller's spike-train array (clean_spike_train       *)
(* rewrites it in place); pass records, for the last call that read        *)
(* batches, which file block each batch index was paired with.             *)
(***************************************************************************)
PipeTimes == {5, 15, 45, 50, 65}

\* the input spike trains: rows in unit-major, time-ascending order
RowLeq(r1, r2) == r1[2] < r2[2] \/ (r1[2] = r2[2] /\ r1[1] <= r2[1])

PipeInputs ==
    {s \in SeqsUpTo(PipeTimes \X (0..MaxPipeLabel), MaxSpikes) :
        \A k \in 1..(Len(s) - 1) : RowLeq(s[k], s[k + 1])}

\* move_rate, in percent
MoveRates == {0, 20, 50, 100}

\* the sorted k-element samples np.random.choice(range(n), k, replace=False)
\* can give, sorted (lines 254-257)
SortedChoices(n, k) ==
    {q \in [1..k -> 0..(n - 1)] : \A x \in 1..(k - 1) : q[x] < q[x + 1]}

PipeInit ==
    /\ train \in PipeInputs
    /\ reader = [cursor |-> 0]
    /\ calc = CalcIdle
    /\ aug = AugIdle
    /\ saved = SavedIdle
    /\ pass = PassIdle
    /\ calls = 0
    /\ clean = CleanIdle
    /\ match = MatchIdle
    /\ sse = SseIdle

\* MeanWaveCalculator(batch_reader, train), lines 80-90.  max() of an empty
\* label column raises (line 85); an exception leaves no new object.
NewCalculator ==
    /\ calls < MaxCalls
    /\ calls' = calls + 1
    /\ LET spike_train == clean_spike_train(train)
           n_units     == SetMax(Range(Labels(spike_train))) + 1
           r == compute_templates([u \in 1..n_units |-> <<>>], spike_train,
                                  n_units, reader.cursor, ConstructorBatches)
       IN  IF train = <<>>
           THEN /\ pass' = [op |-> "construct", ok |-> FALSE, pairs |-> <<>>]
                /\ UNCHANGED <<train, reader, calc, aug>>
           ELSE /\ train' = spike_train
                /\ reader' = [reader EXCEPT !.cursor = r.cursor]
                /\ pass' = [op |-> "construct", ok |-> ~r.err, pairs |-> r.pairs]
                /\ IF r.err
                   THEN UNCHANGED <<calc, aug>>
                   ELSE /\ calc' = [alive |-> TRUE, fresh |-> TRUE,
                                    spike_train |-> spike_train,
                                    n_units |-> n_units,
                                    templates |-> r.templates,
                                    counts |-> r.counts,
                                    boundary_violation |-> r.boundary_violation]
                        /\ aug' = AugIdle
    /\ UNCHANGED <<saved, clean, match, sse>>

\* calc.compute_templates(n_batches), lines 92-113
ComputeTemplates ==
    /\ calls < MaxCalls
    /\ calc.alive
    /\ calls' = calls + 1
    /\ \E n_batches \in 1..MaxBatches :
          LET r == compute_templates(calc.templates, calc.spike_train,
                                     calc.n_units, reader.cursor, n_batches)
          IN  /\ reader' = [reader EXCEPT !.cursor = r.cursor]
              /\ pass' = [op |-> "compute_templates", ok |-> ~r.err, pairs |-> r.pairs]
              /\ calc' = [calc EXCEPT !.fresh = FALSE,
                                      !.templates = r.templates,
                                      !.counts = r.counts,
                                      !.boundary_violation = r.boundary_violation]
    /\ UNCHANGED <<train, aug, saved, clean, match, sse>>

\* reader.reset_cursor(), lines 62-64
ResetCursor ==
    /\ calls < MaxCalls
    /\ calls' = calls + 1
    /\ reader' = [reader EXCEPT !.cursor = 0]
    /\ UNCHANGED <<train, calc, aug, saved, pass, clean, match, sse>>

\* RecordingAugmentation(calc), lines 127-133
NewAugmentation ==
    /\ calls < MaxCalls
    /\ calc.alive
    /\ calls' = calls + 1
    /\ aug' = [alive |-> TRUE,
               stat_summary |-> compute_stat_summary(calc.spike_train, calc.n_units)]
    /\ UNCHANGED <<train, reader, calc, saved, pass, clean, match, sse>>

\* aug.save_augment_recording(out_file_name, length, move_rate), lines 248-304
SaveAugmentRecording ==
    /\ calls < MaxCalls
    /\ aug.alive
    /\ calls' = calls + 1
    /\ \E length \in 1..MaxLength, move_rate \in MoveRates :
       \E moved_units \in SortedChoices(calc.n_units, (move_rate * calc.n_units) \div 100),
          aug_spt \in make_fake_spike_train(calc.spike_train, aug.stat_summary,
                                            calc.n_units, 0) :
          LET moved == moved_of(moved_units, calc.n_units)
              st == save_batches([cursor |-> 0, pairs |-> <<>>, out_file |-> <<>>,
                                  boundary_violation |-> 0, err |-> FALSE],
                                 moved_units, moved, aug_spt, 0, length)
          IN  /\ reader' = [reader EXCEPT !.cursor = st.cursor]
              /\ pass' = [op |-> "save", ok |-> ~st.err, pairs |-> st.pairs]
              /\ saved' = [done |-> ~st.err, length |-> length,
                           n_units |-> calc.n_units, base |-> calc.spike_train,
                           moved_units |-> moved_units, moved |-> moved,
                           aug_spt |-> aug_spt, out_file |-> st.out_file,
                           boundary_violation |-> st.boundary_violation,
                           result |-> IF st.err THEN <<>>
                                      ELSE calc.spike_train \o
                                           relabel_moved(aug_spt, moved, calc.n_units,
                                                         0, calc.n_units)]
    /\ UNCHANGED <<train, calc, aug, clean, match, sse>>

PipeNext ==
    \/ NewCalculator
    \/ ComputeTemplates
    \/ ResetCursor
    \/ NewAugmentation
    \/ SaveAugmentRecording

SpecPipeline == PipeInit /\ [][PipeNext]_vars

(***************************************************************************)
(* C1: after clean_spike_train the labels are exactly 0..U-1, the          *)
(* relabelling is a bijection of the original labels (two rows share a     *)
(* normalised label iff they shared the original one), and the time        *)
(* column is unchanged -- for any integer labels.                          *)
(***************************************************************************)
C1_Normalized ==
    clean.pc = "done" =>
        LET U == Cardinality(Range(Labels(clean.orig)))
        IN  /\ Range(Labels(clean.spt)) = 0..(U - 1)
            /\ \A r1, r2 \in DOMAIN clean.orig :
                   (clean.spt[r1][2] = clean.spt[r2][2])
                       <=> (clean.orig[r1][2] = clean.orig[r2][2])
            /\ Times(clean.spt) = Times(clean.orig)

(***************************************************************************)
(* C3: for fixed A and B and tolerances t1 <= t2, the merge loop run with  *)
(* t1 returns at most what it returns with t2.                             *)
(***************************************************************************)
C3_MonotoneAny ==
    match.pc = "done" =>
        \A t1 \in Tolerances :
            t1 <= match.tol =>
                count_matches_tol(match.array1, match.array2, t1) <= match.count

\* C3 (amended): the same, for A and B each sorted in non-decreasing order.
C3_MonotoneSorted ==
    (match.pc = "done" /\ IsSorted(match.array1) /\ IsSorted(match.array2)) =>
        \A t1 \in Tolerances :
            t1 <= match.tol =>
                count_matches_tol(match.array1, match.array2, t1) <= match.count

C3_Witness ==
    /\ match.pc = "done"
    /\ IsSorted(match.array1) /\ IsSorted(match.array2)
    /\ match.tol = admissible_proximity
    /\ match.count = 2
    /\ count_matches_tol(match.array1, match.array2, Tick) = 1

(***************************************************************************)
(* C2: when the candidate train equals the (non-empty) reference train,    *)
(* after compute_confusion_matrix and compute_accuracies every entry of    *)
(* true_positive is 1 and every entry of false_positive is 0.              *)
(***************************************************************************)
C2_IdenticalTrains ==
    (sse.pc = "done" /\ sse.in_base = sse.in_spt /\ sse.in_base # <<>>) =>
        /\ \A k \in DOMAIN sse.true_positive : RateIs(sse.true_positive[k], 1)
        /\ \A k \in DOMAIN sse.false_positive : RateIs(sse.false_positive[k], 0)

(***************************************************************************)
(* C6: after compute_accuracies, for every candidate cluster c with at     *)
(* least one spike, false_positive[c] is                                   *)
(* (spike_count_cluster[c] - M) / spike_count_cluster[c], M the maximum of *)
(* column c of the confusion matrix.                                       *)
(***************************************************************************)
C6_FalsePositiveFormula ==
    sse.pc = "done" =>
        \A c \in 1..sse.n_clusters :
            sse.spike_count_cluster[c] >= 1 =>
                /\ c \in DOMAIN sse.false_positive
                /\ RateEq(sse.false_positive[c],
                          sse.spike_count_cluster[c] - ColumnMax(sse.confusion_matrix, c),
                          sse.spike_count_cluster[c])

(***************************************************************************)
(* C7: for A sorted in non-decreasing order, count_matches(A, A) with a    *)
(* positive tolerance returns len(A): the loop matches position k with     *)
(* position k at every iteration and ends with both cursors at len(A).     *)
(***************************************************************************)
C7_SelfMatch ==
    (match.array1 = match.array2 /\ IsSorted(match.array1) /\ match.tol > 0) =>
        /\ match.i = match.j
        /\ match.count = match.i
        /\ match.pc = "done" =>
               /\ match.count = Len(match.array1)
               /\ match.i = Len(match.array1)
               /\ match.j = Len(match.array1)

C7_Witness ==
    /\ match.pc = "done"
    /\ match.array1 = match.array2
    /\ IsSorted(match.array1)
    /\ Len(match.array1) = MaxLen
    /\ match.array1[1] < match.array1[MaxLen]
    /\ match.count = MaxLen

(***************************************************************************)
(* C4: in compute_templates every selected spike whose window (local time  *)
(* -10 to +29) is not entirely inside [0, batch_time_samples) increments   *)
(* the boundary-violation counter exactly once and adds nothing to its     *)
(* unit's template sum or spike count, whether the window runs past the    *)
(* batch end or starts before the batch start; every selected spike whose  *)
(* window is inside is accumulated and is no violation.  Stated of the     *)
(* call the constructor makes, on zeroed templates.                        *)
(***************************************************************************)
WindowInside(t) ==
    t + WindowStart >= 0 /\ t + (WindowStop - 1) < batch_time_samples

\* the selected spikes <<batch, position>> of the constructor's pass
SelectedSpikes ==
    UNION {{<<i, j>> : j \in DOMAIN batch_select(calc.spike_train, i, batch_time_samples)} :
              i \in 0..(ConstructorBatches - 1)}

SelectedRow(ij) == batch_select(calc.spike_train, ij[1], batch_time_samples)[ij[2]]

C4_BoundaryCounting ==
    (calc.alive /\ calc.fresh) =>
        /\ calc.boundary_violation =
               Cardinality({ij \in SelectedSpikes : ~WindowInside(SelectedRow(ij)[1])})
        /\ \A u \in 1..calc.n_units :
               /\ calc.counts[u] =
                      Cardinality({ij \in SelectedSpikes :
                                      /\ WindowInside(SelectedRow(ij)[1])
                                      /\ SelectedRow(ij)[2] = u - 1})
               /\ \A t \in 0..batch_time_samples :
                      Cardinality({k \in DOMAIN calc.templates[u] :
                                      /\ calc.templates[u][k].op = "add"
                                      /\ calc.templates[u][k].t = t})
                      = Cardinality({ij \in SelectedSpikes :
                                        /\ WindowInside(t)
                                        /\ SelectedRow(ij) = <<t, u - 1>>})

(***************************************************************************)
(* C5: in the train save_augment_recording returns, all augmented spikes   *)
(* of a unit selected into moved_units carry one fresh id >= n_units,      *)
(* distinct selected units get distinct fresh ids, augmented spikes of     *)
(* the other units keep their id, and the original rows are the prefix.    *)
(***************************************************************************)
AugIds(u) ==
    {saved.result[Len(saved.base) + p][2] :
        p \in {q \in DOMAIN saved.aug_spt : saved.aug_spt[q][2] = u}}

C5_FreshIds ==
    saved.done =>
        /\ Len(saved.result) = Len(saved.base) + Len(saved.aug_spt)
        /\ SubSeq(saved.result, 1, Len(saved.base)) = saved.base
        /\ \A p \in DOMAIN saved.aug_spt :
               /\ saved.result[Len(saved.base) + p][1] = saved.aug_spt[p][1]
               /\ saved.aug_spt[p][2] \notin Range(saved.moved_units) =>
                      saved.result[Len(saved.base) + p][2] = saved.aug_spt[p][2]
        /\ \A u \in Range(saved.moved_units) :
               /\ \A id \in AugIds(u) : id >= saved.n_units
               /\ Cardinality(AugIds(u)) <= 1
        /\ \A u, v \in Range(saved.moved_units) :
               u # v => AugIds(u) \cap AugIds(v) = {}

(***************************************************************************)
(* C8: in save_augment_recording, for every batch i < length and every     *)
(* augmented spike strictly inside the batch whose window lies inside it,  *)
(* the block written is the i-th block read plus the unit's template (the  *)
(* relocated one if the unit was selected, else the original) added at the *)
(* window rows, then scaled; the spike is no boundary violation and its    *)
(* injection is not skipped.                                               *)
(***************************************************************************)
C8_Injected ==
    saved.done =>
        \A i \in 0..(saved.length - 1) :
            \A p \in DOMAIN saved.aug_spt :
                LET time == saved.aug_spt[p][1]
                    cid  == saved.aug_spt[p][2]
                    t    == time - i * batch_time_samples
                    blk  == saved.out_file[i + 1]
                IN  (/\ time > i * batch_time_samples
                     /\ time < (i + 1) * batch_time_samples
                     /\ WindowInside(t)) =>
                        /\ blk.block = i
                        /\ blk.scaled
                        /\ \E k \in DOMAIN blk.injected :
                               /\ blk.injected[k].t = t
                               /\ blk.injected[k].template =
                                      [kind |-> IF cid \in Range(saved.moved_units)
                                                THEN "moved" ELSE "orig",
                                       unit |-> cid]
                        /\ <<t, cid>> \notin Range(blk.skipped)

(***************************************************************************)
(* C9: after compute_stat_summary every unit with at most 2 spikes has the *)
(* row (0, 0, 0), so make_fake_spike_train generates no spike for it; only *)
(* a unit with more than 2 spikes has a non-zero row, whose count is the   *)
(* unit's spike count.                                                     *)
(***************************************************************************)
C9_DegenerateRows ==
    (aug.alive /\ calc.alive) =>
        \A u \in 1..calc.n_units :
            LET c == Len(TimesOf(calc.spike_train, u - 1))
            IN  /\ c <= 2 => /\ aug.stat_summary[u] = ZeroRow
                             /\ new_spike_count(aug.stat_summary[u]) = 0
                /\ c > 2 => aug.stat_summary[u].count = c

(***************************************************************************)
(* C10: whenever a pass pairs batch index i with a block obtained from     *)
(* next_batch, that block is the i-th block of the recording file.  Stated *)
(* of the passes that run to completion.                                   *)
(***************************************************************************)
C10_BatchAlignment ==
    pass.ok => \A k \in DOMAIN pass.pairs : pass.pairs[k][1] = pass.pairs[k][2]

====
